---- MODULE Spec2Model ----
(***************************************************************************)
(* Model of torchaudio/sox_effects.py: the process-wide SoX lifecycle      *)
(* (initialize_sox / shutdown_sox and the exit hook) and one               *)
(* SoxEffectsChain instance (append_effect_to_chain,                       *)
(* sox_build_flow_effects, clear_chain, set_input_file).                   *)
(*                                                                         *)
(* Python strings that the code inspects (effect names, option strings)    *)
(* are sequences of one-character strings, so that str.lower() and str()   *)
(* are computed.  Python values of the loosely typed `eargs` parameter are *)
(* tagged records (none / int / str / list).                               *)
(***************************************************************************)
EXTENDS Integers, Sequences, FiniteSets, TLC

VARIABLES
    _SOX_INITIALIZED,   \* module global: "False" | "True" | "None"
    atexit_hooks,       \* functions registered with atexit, in order
    exiting,            \* the interpreter is running its exit hooks
    calls,              \* number of lifecycle calls made so far
    hist,               \* what has happened to the lifecycle so far
    lastL,              \* the most recent initialize_sox / shutdown_sox call
    input_file,         \* self.input_file
    chain,              \* self.chain
    MAX_EFFECT_OPTS,    \* self.MAX_EFFECT_OPTS
    EFFECTS_AVAILABLE,  \* self.EFFECTS_AVAILABLE
    config,             \* normalization, channels_first, hints, filetype
    appended,           \* effects the caller appended since the last clear_chain
    lastC               \* the most recent call on the chain

lifecycleVars == <<_SOX_INITIALIZED, atexit_hooks, exiting, calls, hist, lastL>>
chainVars     == <<input_file, chain, MAX_EFFECT_OPTS, EFFECTS_AVAILABLE, config,
                   appended, lastC>>
vars          == <<_SOX_INITIALIZED, atexit_hooks, exiting, calls, hist, lastL,
                   input_file, chain, MAX_EFFECT_OPTS, EFFECTS_AVAILABLE, config,
                   appended, lastC>>

-----------------------------------------------------------------------------
(* Bounds of the model *)

MaxCalls == 5          \* lifecycle calls explored
MaxChain == 2          \* effects a chain may hold before appends stop
RecursionLimit == 24   \* interpreter call-stack frames available to _flatten

-----------------------------------------------------------------------------
(* Lifecycle: initialize_sox / shutdown_sox *)

_SOX_SUCCESS_CODE == 0

\* Status codes the engine may hand back (an int of sox_error_t; any int
\* can come back through the binding).
EngineCodes == {0, 1, -1, 2000}

\* Python truthiness of the tri-state flag: only True is truthy.
Truthy(flag) == flag = "True"

\* Python `code == flag` between an int and a bool/None:
\* True == 1, False == 0, None equals no int.
PyEq(code, flag) ==
    \/ flag = "True"  /\ code = 1
    \/ flag = "False" /\ code = 0

\* initialize_sox without the `if not _SOX_INITIALIZED` test: the engine is
\* initialized on every call that is not rejected.
initialize_sox_always_calls(flag, code) ==
    IF flag = "None"
    THEN [raised |-> "RuntimeError", ret |-> {}, flag |-> flag,
          engineCalled |-> FALSE, hook |-> FALSE]
    ELSE [raised |-> "", ret |-> {code},
          flag |-> IF code = _SOX_SUCCESS_CODE THEN "True" ELSE flag,
          engineCalled |-> TRUE, hook |-> (code = _SOX_SUCCESS_CODE)]

\* initialize_sox, given the code the engine would return if called.
initialize_sox_step(flag, code) ==
    IF flag = "None"
    THEN [raised |-> "RuntimeError", ret |-> {}, flag |-> flag,
          engineCalled |-> FALSE, hook |-> FALSE]
    ELSE IF ~Truthy(flag)
    THEN [raised |-> "", ret |-> {code},
          flag |-> IF code = _SOX_SUCCESS_CODE THEN "True" ELSE flag,
          engineCalled |-> TRUE, hook |-> (code = _SOX_SUCCESS_CODE)]
    ELSE [raised |-> "", ret |-> {_SOX_SUCCESS_CODE}, flag |-> flag,
          engineCalled |-> FALSE, hook |-> FALSE]

\* shutdown_sox, given the code the engine would return if called.
shutdown_sox_step(flag, code) ==
    IF Truthy(flag)
    THEN [raised |-> "", ret |-> {code},
          flag |-> IF PyEq(code, flag) THEN "None" ELSE flag,
          engineCalled |-> TRUE]
    ELSE [raised |-> "", ret |-> {_SOX_SUCCESS_CODE}, flag |-> flag,
          engineCalled |-> FALSE]

\* Bookkeeping of the lifecycle history after a call.
HistAfter(op, r) ==
    [initOk        |-> hist.initOk \/
                       (op = "initialize_sox" /\ r.engineCalled
                        /\ r.ret = {_SOX_SUCCESS_CODE}),
     shutdownCalled |-> hist.shutdownCalled \/ op = "shutdown_sox",
     shutdownOk    |-> hist.shutdownOk \/
                       (op = "shutdown_sox" /\ r.engineCalled
                        /\ r.ret = {_SOX_SUCCESS_CODE}),
     allSuccess    |-> hist.allSuccess /\
                       (r.engineCalled => r.ret = {_SOX_SUCCESS_CODE}),
     engineInitCalls |-> hist.engineInitCalls +
                       (IF op = "initialize_sox" /\ r.engineCalled THEN 1 ELSE 0),
     engineShutdownCalls |-> hist.engineShutdownCalls +
                       (IF op = "shutdown_sox" /\ r.engineCalled THEN 1 ELSE 0)]

LastAfter(op, r, atExit) ==
    [op |-> op, raised |-> r.raised, ret |-> r.ret,
     engineCalled |-> r.engineCalled,
     hookRegistered |-> (op = "initialize_sox" /\ r.hook),
     atExit |-> atExit,
     preFlag |-> _SOX_INITIALIZED,
     preInitOk |-> hist.initOk,
     preShutdownOk |-> hist.shutdownOk,
     preShutdownCalled |-> hist.shutdownCalled]

\* A caller invokes initialize_sox().
InitializeSox ==
    /\ ~exiting
    /\ calls < MaxCalls
    /\ \E code \in EngineCodes :
         LET r == initialize_sox_step(_SOX_INITIALIZED, code) IN
           /\ _SOX_INITIALIZED' = r.flag
           /\ atexit_hooks' = IF r.hook THEN Append(atexit_hooks, "shutdown_sox")
                                        ELSE atexit_hooks
           /\ hist' = HistAfter("initialize_sox", r)
           /\ lastL' = LastAfter("initialize_sox", r, FALSE)
    /\ calls' = calls + 1
    /\ UNCHANGED <<exiting, chainVars>>

\* A caller invokes shutdown_sox().
ShutdownSox ==
    /\ ~exiting
    /\ calls < MaxCalls
    /\ \E code \in EngineCodes :
         LET r == shutdown_sox_step(_SOX_INITIALIZED, code) IN
           /\ _SOX_INITIALIZED' = r.flag
           /\ hist' = HistAfter("shutdown_sox", r)
           /\ lastL' = LastAfter("shutdown_sox", r, FALSE)
    /\ calls' = calls + 1
    /\ UNCHANGED <<atexit_hooks, exiting, chainVars>>

\* The interpreter starts to exit; the registered hooks will run.
ProcessExit ==
    /\ ~exiting
    /\ exiting' = TRUE
    /\ UNCHANGED <<_SOX_INITIALIZED, atexit_hooks, calls, hist, lastL, chainVars>>

\* atexit runs the most recently registered hook (shutdown_sox) and drops it.
RunExitHook ==
    /\ exiting
    /\ atexit_hooks # <<>>
    /\ \E code \in EngineCodes :
         LET r == shutdown_sox_step(_SOX_INITIALIZED, code) IN
           /\ _SOX_INITIALIZED' = r.flag
           /\ hist' = HistAfter("shutdown_sox", r)
           /\ lastL' = LastAfter("shutdown_sox", r, TRUE)
    /\ atexit_hooks' = SubSeq(atexit_hooks, 1, Len(atexit_hooks) - 1)
    /\ UNCHANGED <<exiting, calls, chainVars>>

InitLifecycle ==
    /\ _SOX_INITIALIZED = "False"
    /\ atexit_hooks = <<>>
    /\ exiting = FALSE
    /\ calls = 0
    /\ hist = [initOk |-> FALSE, shutdownCalled |-> FALSE, shutdownOk |-> FALSE,
               allSuccess |-> TRUE, engineInitCalls |-> 0, engineShutdownCalls |-> 0]
    /\ lastL = [op |-> "none", raised |-> "", ret |-> {}, engineCalled |-> FALSE,
                hookRegistered |-> FALSE, atExit |-> FALSE, preFlag |-> "False",
                preInitOk |-> FALSE, preShutdownOk |-> FALSE,
                preShutdownCalled |-> FALSE]

NextLifecycle == InitializeSox \/ ShutdownSox \/ ProcessExit \/ RunExitHook

-----------------------------------------------------------------------------
(* Python values and strings *)

NoneV     == [tag |-> "none"]
IntV(n)   == [tag |-> "int", n |-> n]
StrV(s)   == [tag |-> "str", s |-> s]
ListV(xs) == [tag |-> "list", items |-> xs]
PathV(p)  == [tag |-> "path", p |-> p]

\* isinstance(v, list)
IsList(v) == v.tag = "list"

UpperCase == <<"A","B","C","D","E","F","G","H","I","J","K","L","M",
               "N","O","P","Q","R","S","T","U","V","W","X","Y","Z">>
LowerCase == <<"a","b","c","d","e","f","g","h","i","j","k","l","m",
               "n","o","p","q","r","s","t","u","v","w","x","y","z">>

LowerChar(c) ==
    IF \E i \in 1..Len(UpperCase) : UpperCase[i] = c
    THEN LowerCase[CHOOSE i \in 1..Len(UpperCase) : UpperCase[i] = c]
    ELSE c

\* str.lower()
lower(s) == [i \in 1..Len(s) |-> LowerChar(s[i])]

\* The empty string "".
EmptyStr == <<>>

DigitChars == <<"0","1","2","3","4","5","6","7","8","9">>

RECURSIVE NatToStr(_)
NatToStr(n) ==
    IF n < 10 THEN <<DigitChars[n + 1]>>
    ELSE NatToStr(n \div 10) \o <<DigitChars[(n % 10) + 1]>>

\* str(v) for the scalars the model passes as effect options
str(v) ==
    IF v.tag = "int"
    THEN (IF v.n < 0 THEN <<"-">> \o NatToStr(0 - v.n) ELSE NatToStr(v.n))
    ELSE v.s

Ok(v)    == [raised |-> "", val |-> v]
Raise(e) == [raised |-> e, val |-> <<>>]

-----------------------------------------------------------------------------
(* Effect names used as inputs *)

rate == <<"r", "a", "t", "e">>
Rate == <<"R", "a", "t", "e">>
RATE == <<"R", "A", "T", "E">>
vol == <<"v", "o", "l">>
fir == <<"f", "i", "r">>
FIR == <<"F", "I", "R">>
splice == <<"s", "p", "l", "i", "c", "e">>
spectrogram == <<"s", "p", "e", "c", "t", "r", "o", "g", "r", "a", "m">>
noiseprof == <<"n", "o", "i", "s", "e", "p", "r", "o", "f">>
NoiseProf == <<"N", "o", "i", "s", "e", "P", "r", "o", "f">>
bogus == <<"b", "o", "g", "u", "s">>
no_effects == <<"n", "o", "_", "e", "f", "f", "e", "c", "t", "s">>

EFFECTS_UNIMPLEMENTED == {spectrogram, splice, noiseprof, fir}

\* What effect_names() may return when the chain is constructed: the
\* engine's vocabulary (lower-case names), with or without the effects the
\* integration does not support.
RegistryChoices ==
    { {rate, vol, spectrogram, splice, noiseprof, fir},
      {rate, vol} }

NameInputs ==
    {rate, Rate, RATE, vol, fir, FIR, splice, spectrogram, noiseprof,
     NoiseProf, bogus, no_effects}

-----------------------------------------------------------------------------
(* SoxEffectsChain *)

\* A list of n integer options 1..n.
FlatList(n) == ListV([i \in 1..n |-> IntV(i)])

\* The same options with the first one wrapped in a list of its own.
NestedFirst(n) ==
    ListV([i \in 1..n |-> IF i = 1 THEN ListV(<<IntV(1)>>) ELSE IntV(i)])

One == <<"1">>

\* Values passed as `eargs`: absent, empty, a scalar, flat lists up to one
\* more than the default MAX_EFFECT_OPTS, and nested lists.
ArgInputs ==
    { NoneV, ListV(<<>>),
      IntV(16000),
      ListV(<<IntV(16000)>>), ListV(<<StrV(One), IntV(-3)>>),
      FlatList(20), FlatList(21),
      ListV(<<ListV(<<IntV(16000)>>)>>),
      ListV(<<IntV(16000), ListV(<<StrV(One)>>)>>),
      ListV(<<ListV(<<>>)>>),
      NestedFirst(20), NestedFirst(21) }

\* The calls of append_effect_to_chain explored: every argument value with
\* the names the registry may hold, and every name with no arguments and
\* with too many.
AppendInputs ==
    ({rate, RATE, vol} \X ArgInputs) \cup (NameInputs \X {NoneV, FlatList(21)})

PathInputs == {PathV("a.wav"), PathV("b.wav")}

\* The `out` argument of sox_build_flow_effects: absent, a tensor, or
\* something check_input rejects.
OutInputs == {NoneV, [tag |-> "tensor"], [tag |-> "not_a_tensor"]}

SampleRates == {16000}

ConfigChoices ==
    { [normalization |-> TRUE, channels_first |-> TRUE, out_siginfo |-> NoneV,
       out_encinfo |-> NoneV, filetype |-> "raw"],
      [normalization |-> FALSE, channels_first |-> FALSE, out_siginfo |-> NoneV,
       out_encinfo |-> NoneV, filetype |-> "wav"] }

\* SoxEffect() with ename and eopts filled in.
SoxEffect(ename, eopts) == [ename |-> ename, eopts |-> eopts]

\* _check_effect returning the name as given instead of lower-cased.
_check_effect_as_given(e, available) ==
    IF lower(e) \in EFFECTS_UNIMPLEMENTED THEN Raise("NotImplementedError")
    ELSE IF lower(e) \notin available THEN Raise("LookupError")
    ELSE Ok(e)

\* _check_effect looking the name up in the registry first.
_check_effect_registry_first(e, available) ==
    IF lower(e) \notin available THEN Raise("LookupError")
    ELSE IF lower(e) \in EFFECTS_UNIMPLEMENTED THEN Raise("NotImplementedError")
    ELSE Ok(lower(e))

\* _check_effect with the registry test inverted.
_check_effect_inverted_lookup(e, available) ==
    IF lower(e) \in EFFECTS_UNIMPLEMENTED THEN Raise("NotImplementedError")
    ELSE IF lower(e) \in available THEN Raise("LookupError")
    ELSE Ok(lower(e))

\* _check_effect: the lower-cased name, or the exception raised.
_check_effect(e, available) ==
    IF lower(e) \in EFFECTS_UNIMPLEMENTED THEN Raise("NotImplementedError")
    ELSE IF lower(e) \notin available THEN Raise("LookupError")
    ELSE Ok(lower(e))

\* `l + r` of two results: an exception raised while computing the left
\* operand propagates before the right one is computed.
Concat(l, r) ==
    IF l.raised # "" THEN l
    ELSE IF r.raised # "" THEN r
    ELSE Ok(l.val \o r.val)

\* _flatten on the Python list x with d interpreter frames left; running
\* out of frames raises RecursionError, which propagates to the caller.
RECURSIVE _flatten(_, _)
_flatten(x, d) ==
    IF d = 0 THEN Raise("RecursionError")
    ELSE IF x = <<>> THEN Ok(<<>>)
    ELSE IF IsList(x[1])
    THEN Concat(_flatten(SubSeq(x, 1, 1), d - 1), _flatten(SubSeq(x, 1, 1), d - 1))
    ELSE Concat(Ok(<<str(x[1])>>), _flatten(Tail(x), d - 1))

\* Lines 178-181: absent or [] becomes [""], a non-list is wrapped.
WrapArgs(eargs) ==
    IF eargs = NoneV \/ eargs = ListV(<<>>) THEN <<StrV(EmptyStr)>>
    ELSE IF ~IsList(eargs) THEN <<eargs>>
    ELSE eargs.items

\* The length test of line 183.
TooManyOpts(n, max) == n > max

\* append_effect_to_chain: the exception raised (if any) and the chain after.
\* The values of _check_effect and of _flatten(eargs) on the inputs of the
\* model, computed once.
CheckedNames ==
    [av \in RegistryChoices |-> [e \in NameInputs |-> _check_effect(e, av)]]
FlattenedArgs ==
    [a \in ArgInputs |-> _flatten(WrapArgs(a), RecursionLimit)]

\* append_effect_to_chain appending before the length test.
append_effect_to_chain_append_first(ename, eargs, ch, max, available) ==
    LET c == CheckedNames[available][ename] IN
    IF c.raised # "" THEN [raised |-> c.raised, chain |-> ch]
    ELSE LET f == FlattenedArgs[eargs] IN
         IF f.raised # "" THEN [raised |-> f.raised, chain |-> ch]
         ELSE IF TooManyOpts(Len(f.val), max)
         THEN [raised |-> "RuntimeError",
               chain |-> Append(ch, SoxEffect(c.val, f.val))]
         ELSE [raised |-> "", chain |-> Append(ch, SoxEffect(c.val, f.val))]

append_effect_to_chain_step(ename, eargs, ch, max, available) ==
    LET c == CheckedNames[available][ename] IN
    IF c.raised # "" THEN [raised |-> c.raised, chain |-> ch]
    ELSE LET f == FlattenedArgs[eargs] IN
         IF f.raised # "" THEN [raised |-> f.raised, chain |-> ch]
         ELSE IF TooManyOpts(Len(f.val), max)
         THEN [raised |-> "RuntimeError", chain |-> ch]
         ELSE [raised |-> "", chain |-> Append(ch, SoxEffect(c.val, f.val))]

\* The sentinel effect of lines 210-212.
NoEffects == SoxEffect(no_effects, <<EmptyStr>>)

\* _misc_ops.check_input(out): rejects an incompatible output buffer.
check_input(out) ==
    IF out.tag = "tensor" THEN Ok(out) ELSE Raise("BadOutputError")

\* sox_build_flow_effects appending the sentinel whatever the chain holds.
sox_build_flow_effects_always_sentinel(out, outcome, sr, ch, file, cfg, max) ==
    LET chk == IF out # NoneV THEN check_input(out) ELSE Ok(out) IN
    IF chk.raised # ""
    THEN [raised |-> chk.raised, ret |-> {}, chain |-> ch, handed |-> {},
          events |-> <<"check_input">>]
    ELSE
      LET ch1 == Append(ch, NoEffects)
          args == [input_file |-> file, channels_first |-> cfg.channels_first,
                   out_siginfo |-> cfg.out_siginfo, out_encinfo |-> cfg.out_encinfo,
                   filetype |-> cfg.filetype, chain |-> ch1,
                   MAX_EFFECT_OPTS |-> max]
          pre  == IF out # NoneV THEN <<"check_input">> ELSE <<"FloatTensor">>
      IN IF outcome = "ok"
         THEN [raised |-> "", ret |-> {sr}, chain |-> ch1, handed |-> {args},
               events |-> pre \o <<"build_flow_effects", "normalize_audio">>]
         ELSE [raised |-> "EngineError", ret |-> {}, chain |-> ch1,
               handed |-> {args}, events |-> pre \o <<"build_flow_effects">>]

\* sox_build_flow_effects normalizing the buffer before the engine fills it.
sox_build_flow_effects_normalize_first(out, outcome, sr, ch, file, cfg, max) ==
    LET chk == IF out # NoneV THEN check_input(out) ELSE Ok(out) IN
    IF chk.raised # ""
    THEN [raised |-> chk.raised, ret |-> {}, chain |-> ch, handed |-> {},
          events |-> <<"check_input">>]
    ELSE
      LET ch1 == IF Len(ch) = 0 THEN Append(ch, NoEffects) ELSE ch
          args == [input_file |-> file, channels_first |-> cfg.channels_first,
                   out_siginfo |-> cfg.out_siginfo, out_encinfo |-> cfg.out_encinfo,
                   filetype |-> cfg.filetype, chain |-> ch1,
                   MAX_EFFECT_OPTS |-> max]
          pre  == IF out # NoneV THEN <<"check_input">> ELSE <<"FloatTensor">>
      IN IF outcome = "ok"
         THEN [raised |-> "", ret |-> {sr}, chain |-> ch1, handed |-> {args},
               events |-> pre \o <<"normalize_audio", "build_flow_effects">>]
         ELSE [raised |-> "EngineError", ret |-> {}, chain |-> ch1,
               handed |-> {args},
               events |-> pre \o <<"normalize_audio", "build_flow_effects">>]

\* sox_build_flow_effects, given what the engine would do if called:
\* what is raised, what is returned, the chain afterwards, the arguments
\* handed to the engine, and the order of the steps taken.
sox_build_flow_effects_step(out, outcome, sr, ch, file, cfg, max) ==
    LET chk == IF out # NoneV THEN check_input(out) ELSE Ok(out) IN
    IF chk.raised # ""
    THEN [raised |-> chk.raised, ret |-> {}, chain |-> ch, handed |-> {},
          events |-> <<"check_input">>]
    ELSE
      LET ch1 == IF Len(ch) = 0 THEN Append(ch, NoEffects) ELSE ch
          args == [input_file |-> file, channels_first |-> cfg.channels_first,
                   out_siginfo |-> cfg.out_siginfo, out_encinfo |-> cfg.out_encinfo,
                   filetype |-> cfg.filetype, chain |-> ch1,
                   MAX_EFFECT_OPTS |-> max]
          pre  == IF out # NoneV THEN <<"check_input">> ELSE <<"FloatTensor">>
      IN IF outcome = "ok"
         THEN [raised |-> "", ret |-> {sr}, chain |-> ch1, handed |-> {args},
               events |-> pre \o <<"build_flow_effects", "normalize_audio">>]
         ELSE [raised |-> "EngineError", ret |-> {}, chain |-> ch1,
               handed |-> {args}, events |-> pre \o <<"build_flow_effects">>]

\* What the engine may do with a call: it cannot succeed without a path.
EngineOutcomes(file) == IF file = NoneV THEN {"error"} ELSE {"ok", "error"}

PreState ==
    [chain |-> chain, input_file |-> input_file,
     MAX_EFFECT_OPTS |-> MAX_EFFECT_OPTS,
     EFFECTS_AVAILABLE |-> EFFECTS_AVAILABLE, config |-> config]

NoCall ==
    [op |-> "none", ename |-> <<>>, eargs |-> NoneV, arg |-> NoneV,
     raised |-> "", ret |-> {}, handed |-> {}, events |-> <<>>,
     pre |-> [chain |-> <<>>, input_file |-> NoneV, MAX_EFFECT_OPTS |-> 0,
              EFFECTS_AVAILABLE |-> {}, config |-> NoneV]]

AppendEffectToChain ==
    /\ Len(chain) < MaxChain
    /\ \E call \in AppendInputs :
         LET ename == call[1]
             eargs == call[2] IN
         \E r \in {append_effect_to_chain_step(ename, eargs, chain,
                                                MAX_EFFECT_OPTS, EFFECTS_AVAILABLE)} :
           /\ chain' = r.chain
           /\ appended' = IF r.raised = ""
                           THEN Append(appended, r.chain[Len(r.chain)])
                           ELSE appended
           /\ lastC' = [NoCall EXCEPT !.op = "append_effect_to_chain",
                                      !.ename = ename, !.eargs = eargs,
                                      !.raised = r.raised, !.pre = PreState]
    /\ UNCHANGED <<input_file, MAX_EFFECT_OPTS, EFFECTS_AVAILABLE, config, lifecycleVars>>

SoxBuildFlowEffects ==
    /\ \E out \in OutInputs, outcome \in EngineOutcomes(input_file), sr \in SampleRates :
         \E r \in {sox_build_flow_effects_step(out, outcome, sr, chain, input_file,
                                                config, MAX_EFFECT_OPTS)} :
           /\ chain' = r.chain
           /\ lastC' = [NoCall EXCEPT !.op = "sox_build_flow_effects",
                                      !.arg = out, !.raised = r.raised,
                                      !.ret = r.ret, !.handed = r.handed,
                                      !.events = r.events, !.pre = PreState]
    /\ UNCHANGED <<input_file, MAX_EFFECT_OPTS, EFFECTS_AVAILABLE, config, appended,
                   lifecycleVars>>

\* clear_chain that also forgets the input file.
clear_chain_forgets_input(ch, file) == [chain |-> <<>>, input_file |-> NoneV]

\* clear_chain: the chain and the input file afterwards.
clear_chain_step(ch, file) == [chain |-> <<>>, input_file |-> file]

ClearChain ==
    /\ \E r \in {clear_chain_step(chain, input_file)} :
         /\ chain' = r.chain
         /\ input_file' = r.input_file
    /\ appended' = <<>>
    /\ lastC' = [NoCall EXCEPT !.op = "clear_chain", !.pre = PreState]
    /\ UNCHANGED <<MAX_EFFECT_OPTS, EFFECTS_AVAILABLE, config, lifecycleVars>>

\* set_input_file that starts a new chain for the new input.
set_input_file_resets_chain(f, ch, file) == [chain |-> <<>>, input_file |-> f]

\* set_input_file: the input file and the chain afterwards.
set_input_file_step(f, ch, file) == [chain |-> ch, input_file |-> f]

SetInputFile ==
    /\ \E f \in PathInputs :
         \E r \in {set_input_file_step(f, chain, input_file)} :
           /\ input_file' = r.input_file
           /\ chain' = r.chain
           /\ lastC' = [NoCall EXCEPT !.op = "set_input_file", !.arg = f,
                                      !.pre = PreState]
    /\ UNCHANGED <<MAX_EFFECT_OPTS, EFFECTS_AVAILABLE, config, appended, lifecycleVars>>

\* SoxEffectsChain.__init__
InitChain ==
    /\ input_file = NoneV
    /\ chain = <<>>
    /\ MAX_EFFECT_OPTS = 20
    /\ config \in ConfigChoices
    /\ EFFECTS_AVAILABLE \in RegistryChoices
    /\ appended = <<>>
    /\ lastC = NoCall

NextChain == AppendEffectToChain \/ SoxBuildFlowEffects \/ ClearChain \/ SetInputFile

-----------------------------------------------------------------------------
(* Specifications *)

Init == InitLifecycle /\ InitChain

Next == NextLifecycle \/ NextChain

Spec == Init /\ [][Next]_vars

\* The lifecycle alone, and one chain alone.
SpecLifecycle == Init /\ [][NextLifecycle]_vars
SpecChain     == Init /\ [][NextChain]_vars

-----------------------------------------------------------------------------
(* Properties of the lifecycle *)

\* C1: once shutdown_sox has succeeded (engine shutdown returned 0), every
\* later initialize_sox raises RuntimeError, does not call the engine and
\* does not leave the lifecycle initialized.
C1_InitAfterShutdownRaises ==
    (lastL.op = "initialize_sox" /\ lastL.preShutdownOk) =>
        /\ lastL.raised = "RuntimeError"
        /\ ~lastL.engineCalled
        /\ _SOX_INITIALIZED # "True"

\* C2: when the engine always returns the success code, its shutdown is
\* invoked at most once, and a shutdown_sox after a successful one returns 0
\* without calling the engine.
C2_ShutdownIdempotent ==
    hist.allSuccess =>
        /\ hist.engineShutdownCalls <= 1
        /\ (lastL.op = "shutdown_sox" /\ lastL.preShutdownOk) =>
               (lastL.ret = {0} /\ ~lastL.engineCalled)

\* C3: after an initialize_sox in which the engine returned success, and
\* before any shutdown_sox, a further initialize_sox returns 0, does not
\* call the engine, registers no further exit hook and leaves the lifecycle
\* initialized.
C3_InitializeIdempotent ==
    (lastL.op = "initialize_sox" /\ lastL.preInitOk /\ ~hist.shutdownCalled) =>
        /\ lastL.raised = ""
        /\ lastL.ret = {0}
        /\ ~lastL.engineCalled
        /\ ~lastL.hookRegistered
        /\ Len(atexit_hooks) = 1
        /\ _SOX_INITIALIZED = "True"

C3_Witness ==
    /\ lastL.op = "initialize_sox"
    /\ lastL.preInitOk
    /\ ~hist.shutdownCalled
    /\ lastL.ret = {0}

-----------------------------------------------------------------------------
(* Properties of append_effect_to_chain *)

LastWasAppend == lastC.op = "append_effect_to_chain"

\* The name of the last append is in the registry snapshot and implemented.
ValidName ==
    /\ lower(lastC.ename) \in lastC.pre.EFFECTS_AVAILABLE
    /\ lower(lastC.ename) \notin EFFECTS_UNIMPLEMENTED

Absent(a) == a = NoneV \/ a = ListV(<<>>)

\* A scalar, or a list none of whose elements is a list.
Flat(a) == IsList(a) => \A i \in 1..Len(a.items) : ~IsList(a.items[i])

\* The depth-first, order-preserving string forms of the leaves of a value.
RECURSIVE LeafStrings(_), LeafStringsOfAll(_)
LeafStrings(v) ==
    IF IsList(v) THEN LeafStringsOfAll(v.items) ELSE <<str(v)>>
LeafStringsOfAll(xs) ==
    IF xs = <<>> THEN <<>>
    ELSE LeafStrings(Head(xs)) \o LeafStringsOfAll(Tail(xs))

\* The options an append is to store: [""] for absent arguments.
ExpectedOpts(a) == IF Absent(a) THEN <<EmptyStr>> ELSE LeafStrings(a)

ChainUnchanged == chain = lastC.pre.chain

FrameUnchanged ==
    /\ input_file = lastC.pre.input_file
    /\ MAX_EFFECT_OPTS = lastC.pre.MAX_EFFECT_OPTS
    /\ EFFECTS_AVAILABLE = lastC.pre.EFFECTS_AVAILABLE
    /\ config = lastC.pre.config

\* The last append added exactly one entry after the earlier ones.
AppendedOne ==
    /\ lastC.raised = ""
    /\ Len(chain) = Len(lastC.pre.chain) + 1
    /\ SubSeq(chain, 1, Len(lastC.pre.chain)) = lastC.pre.chain

\* C4: a valid name with absent or flat arguments of length at most
\* MAX_EFFECT_OPTS is appended: the chain grows by one, the earlier entries
\* are unchanged and the last entry carries the lower-cased name.
C4_ValidAppendSucceeds ==
    (LastWasAppend /\ ValidName /\ Flat(lastC.eargs)
       /\ Len(ExpectedOpts(lastC.eargs)) <= lastC.pre.MAX_EFFECT_OPTS) =>
        /\ AppendedOne
        /\ chain[Len(chain)].ename = lower(lastC.ename)

C4_Witness ==
    /\ LastWasAppend
    /\ lastC.ename = RATE
    /\ lastC.eargs = FlatList(20)
    /\ Len(lastC.pre.chain) >= 1
    /\ Len(chain) = Len(lastC.pre.chain) + 1

\* C5: a name whose lower-cased form is unimplemented is rejected with
\* NotImplementedError, in any letter case and whatever the registry holds.
C5_UnimplementedRejected ==
    (LastWasAppend /\ lower(lastC.ename) \in EFFECTS_UNIMPLEMENTED) =>
        lastC.raised = "NotImplementedError"

C5_Witness ==
    /\ LastWasAppend
    /\ lastC.ename = FIR
    /\ fir \notin lastC.pre.EFFECTS_AVAILABLE
    /\ lastC.raised = "NotImplementedError"

\* C6 as stated: every name absent from the registry snapshot is rejected
\* with LookupError.
C6_AbsentNameIsLookupError ==
    (LastWasAppend /\ lastC.ename \notin lastC.pre.EFFECTS_AVAILABLE) =>
        lastC.raised = "LookupError"

\* C6 amended: every name whose lower-cased form is absent from the
\* registry snapshot and not in the unimplemented set is rejected with
\* LookupError.
C6_UnknownLoweredNameIsLookupError ==
    (LastWasAppend
       /\ lower(lastC.ename) \notin lastC.pre.EFFECTS_AVAILABLE
       /\ lower(lastC.ename) \notin EFFECTS_UNIMPLEMENTED) =>
        lastC.raised = "LookupError"

C6_Witness ==
    /\ LastWasAppend
    /\ lastC.ename = bogus
    /\ lastC.raised = "LookupError"

\* C7: for a valid name and arguments with at most MAX_EFFECT_OPTS leaves,
\* the stored options are the depth-first string forms of the leaves, so a
\* scalar v, [v] and [[v]] all store [str(v)].
C7_StoresLeafStrings ==
    (LastWasAppend /\ ValidName /\ ~Absent(lastC.eargs)
       /\ Len(LeafStrings(lastC.eargs)) <= lastC.pre.MAX_EFFECT_OPTS) =>
        /\ lastC.raised = ""
        /\ chain = Append(lastC.pre.chain,
                          SoxEffect(lower(lastC.ename), LeafStrings(lastC.eargs)))

\* C8: for a valid name the call fails with the too-many-options
\* RuntimeError exactly when the flattened length exceeds MAX_EFFECT_OPTS,
\* and a flattened length equal to the maximum is appended.
C8_TooManyOptionsExactly ==
    (LastWasAppend /\ ValidName) =>
        /\ (lastC.raised = "RuntimeError") <=>
               (Len(ExpectedOpts(lastC.eargs)) > lastC.pre.MAX_EFFECT_OPTS)
        /\ (Len(ExpectedOpts(lastC.eargs)) = lastC.pre.MAX_EFFECT_OPTS) =>
               AppendedOne

\* C9: a failed append leaves the effect sequence, the input file and the
\* configuration as they were.
C9_FailedAppendChangesNothing ==
    (LastWasAppend /\ lastC.raised # "") => (ChainUnchanged /\ FrameUnchanged)

C9_Witness ==
    /\ LastWasAppend
    /\ lastC.raised = "RuntimeError"
    /\ Len(lastC.pre.chain) >= 1
    /\ input_file # NoneV

-----------------------------------------------------------------------------
(* Properties of sox_build_flow_effects *)

LastWasBuild == lastC.op = "sox_build_flow_effects"

\* C10: an execution of an empty chain hands the engine exactly the
\* sentinel and leaves the stored effect sequence empty when it returns.
C10_SentinelForThatCallOnly ==
    (LastWasBuild /\ lastC.raised = "" /\ lastC.pre.chain = <<>>) =>
        /\ \A h \in lastC.handed : h.chain = <<NoEffects>>
        /\ chain = <<>>

\* C11: clear_chain empties the effect sequence and leaves the input file
\* and the configuration untouched, and an execution that follows it hands
\* the engine the input file set before the clear.
C11_ClearKeepsInputAndConfig ==
    [][ /\ (lastC'.op = "clear_chain") =>
               /\ chain' = <<>>
               /\ input_file' = input_file
               /\ config' = config
               /\ MAX_EFFECT_OPTS' = MAX_EFFECT_OPTS
               /\ EFFECTS_AVAILABLE' = EFFECTS_AVAILABLE
        /\ (lastC.op = "clear_chain" /\ lastC'.op = "sox_build_flow_effects") =>
               \A h \in lastC'.handed : h.input_file = lastC.pre.input_file
      ]_vars

C11_Witness ==
    /\ lastC.op = "clear_chain"
    /\ lastC.pre.chain # <<>>
    /\ lastC.pre.input_file # NoneV
    /\ chain = <<>>
    /\ input_file = lastC.pre.input_file

\* C12: an execution of a non-empty chain leaves the stored effect sequence
\* exactly as it was: same entries, same order, none added or dropped.
C12_ExecutionKeepsOrder ==
    (LastWasBuild /\ lastC.pre.chain # <<>>) => chain = lastC.pre.chain

C12_Witness ==
    /\ LastWasBuild
    /\ lastC.raised = ""
    /\ Len(appended) = 2
    /\ appended[1].ename # appended[2].ename
    /\ chain = appended

\* How often, and where, a step occurs in the last execution.
Occurrences(e) ==
    Cardinality({i \in 1..Len(lastC.events) : lastC.events[i] = e})
Position(e) ==
    CHOOSE i \in 1..Len(lastC.events) : lastC.events[i] = e

\* One engine call; on success one normalization, after it; on an engine
\* error no normalization.
EngineOnceThenNormalize ==
    /\ Occurrences("build_flow_effects") = 1
    /\ IF lastC.raised = "EngineError"
       THEN Occurrences("normalize_audio") = 0
       ELSE /\ Occurrences("normalize_audio") = 1
            /\ Position("normalize_audio") > Position("build_flow_effects")

\* C13 as stated: in every execution the engine is invoked exactly once and
\* normalization is applied exactly once, after the engine call; when the
\* engine fails normalization is not applied.
C13_EngineOnceNormalizeOnce ==
    LastWasBuild => EngineOnceThenNormalize

\* C13 amended: the same, in every execution whose output-buffer check
\* passes.
C13_EngineOnceNormalizeOnceAfterCheck ==
    (LastWasBuild /\ lastC.raised # "BadOutputError") => EngineOnceThenNormalize

C13_Witness ==
    /\ LastWasBuild
    /\ lastC.raised = ""
    /\ lastC.arg # NoneV
    /\ lastC.events = <<"check_input", "build_flow_effects", "normalize_audio">>

\* C14: an execution with no input file set fails, and the engine is not
\* handed a null input path.
C14_NullInputNeverHanded ==
    (LastWasBuild /\ lastC.pre.input_file = NoneV) =>
        /\ lastC.raised # ""
        /\ \A h \in lastC.handed : h.input_file # NoneV

\* C15: every stored effect has a lower-case name that is in the registry
\* snapshot and implemented, and between 1 and MAX_EFFECT_OPTS options.
C15_StoredEffectsValid ==
    \A i \in 1..Len(chain) :
        /\ lower(chain[i].ename) = chain[i].ename
        /\ chain[i].ename \in EFFECTS_AVAILABLE \ EFFECTS_UNIMPLEMENTED
        /\ Len(chain[i].eopts) >= 1
        /\ Len(chain[i].eopts) <= MAX_EFFECT_OPTS

\* C16: every execution hands the engine exactly the effects appended since
\* the last clear_chain, in order, or exactly the sentinel when there are
\* none.
C16_HandedIsAppendedOrSentinel ==
    LastWasBuild =>
        \A h \in lastC.handed :
            h.chain = IF appended = <<>> THEN <<NoEffects>> ELSE appended

\* C17: a failed execution leaves the effect sequence, the input file and
\* the configuration as they were.
C17_FailedExecutionChangesNothing ==
    (LastWasBuild /\ lastC.raised # "") => (ChainUnchanged /\ FrameUnchanged)

\* C18: set_input_file replaces the input file and nothing else, and every
\* execution hands the engine the current input file and leaves it in place.
C18_SetInputFileOnly ==
    /\ (lastC.op = "set_input_file") =>
           /\ input_file = lastC.arg
           /\ ChainUnchanged
           /\ MAX_EFFECT_OPTS = lastC.pre.MAX_EFFECT_OPTS
           /\ EFFECTS_AVAILABLE = lastC.pre.EFFECTS_AVAILABLE
           /\ config = lastC.pre.config
    /\ LastWasBuild =>
           /\ input_file = lastC.pre.input_file
           /\ \A h \in lastC.handed : h.input_file = input_file

C18_Witness ==
    /\ lastC.op = "set_input_file"
    /\ lastC.pre.input_file = PathV("a.wav")
    /\ lastC.arg = PathV("b.wav")
    /\ input_file = PathV("b.wav")
    /\ Len(chain) >= 1

\* C19: for a valid name and any list argument the call ends by appending
\* the effect or by raising the too-many-options RuntimeError.
C19_AppendEndsNormally ==
    (LastWasAppend /\ ValidName /\ IsList(lastC.eargs)) =>
        lastC.raised \in {"", "RuntimeError"}

-----------------------------------------------------------------------------
(* The lifecycle flag *)

\* C20: the flag changes only in a call in which the engine returned the
\* success code; a non-zero code from initialize leaves it uninitialized
\* with no exit hook, a non-zero code from shutdown leaves it initialized;
\* it only moves False -> True -> None.
C20_FlagChangesOnlyOnSuccess ==
    /\ (lastL.op = "initialize_sox" /\ lastL.engineCalled
          /\ lastL.ret # {_SOX_SUCCESS_CODE}) =>
           (_SOX_INITIALIZED = "False" /\ ~lastL.hookRegistered)
    /\ (lastL.op = "shutdown_sox" /\ lastL.engineCalled
          /\ lastL.ret # {_SOX_SUCCESS_CODE}) =>
           _SOX_INITIALIZED = "True"
    /\ (lastL.preFlag # _SOX_INITIALIZED) =>
           /\ lastL.engineCalled
           /\ lastL.ret = {_SOX_SUCCESS_CODE}
           /\ <<lastL.preFlag, _SOX_INITIALIZED>> \in
                  {<<"False", "True">>, <<"True", "None">>}

====
